---- MODULE Spec2Model ----
(***************************************************************************)
(* csv2pdf (src/main.go, lines 1-295): the command reads a semicolon       *)
(* separated file, splits it into parts by field count (parseCsv), and     *)
(* replays the file into one table per part (main).  Fonts are unpacked    *)
(* from a bundled archive by a bounded pool of goroutines                  *)
(* (prepareFontDir).                                                       *)
(*                                                                         *)
(* A CSV record is modelled by the sequence of the byte lengths of its     *)
(* fields: the program only ever looks at len(record) and len(field).      *)
(* The extraction goroutines run the same code and share nothing but the   *)
(* token channel and the errgroup, so they are kept as a count per         *)
(* program position.                                                       *)
(***************************************************************************)
EXTENDS Integers, Sequences, FiniteSets, TLC

\* ------------------------------------------------------------------ bounds
\* longest input file, in records
MaxRows == 5
\* archive entries in the runs of Spec
MaxEntries == 2
\* archive entries in the runs of SpecStage (more than the token channel holds)
StageEntries == 17

\* field counts and field lengths the input records are drawn from
ColCounts == {1, 2}
FieldLens == {1, 110}

\* ------------------------------------------------------- program constants
\* tokens := make(chan struct{}, 16)
TokenCap == 16
\* if totalWidth > 190 { orientation = "L" }
LandscapeOver == 190

VARIABLES
    pc,            \* position of main
    exitCause,     \* "" while running, else how the process ended
    flagFontDir,   \* -fontdir: "" or a directory
    zipEntries,    \* len(zr.File) of the bundled fontdir.zip
    tmpDir,        \* the directory made by os.MkdirTemp exists
    closeFontDir,  \* the func value main defers: "unset", "nil", "removeAll"
    cleanupCalls,  \* calls of the closeDir closure (os.RemoveAll(fontDir))
    spawned,       \* grp.Go calls made so far
    tasks,         \* goroutines per position: acquire, open, create, copy
    tokens,        \* len(tokens): slots of the channel in use
    done,          \* goroutines that returned
    extracted,     \* entries copied and closed without error
    ioFailed,      \* some open/create/copy/close failed
    grpErr,        \* errgroup holds a non-nil first error
    csv,           \* the input file: records as sequences of field lengths
    parts,         \* []partDesc returned by parseCsv
    partIdx,       \* index (1-based) of the part the replay loop is at
    n,             \* the line counter of the replay loop, shared across parts
    crPos,         \* records the second csv.Reader has returned
    pages,         \* orientation of each page added by AddPageFormat
    fed,           \* per part: line numbers of the records given to rowWriter
    heads,         \* per part: line number of the record read and dropped as header
    outputs        \* per call of pdf.Output: number of parts whose body loop had ended

vars == << pc, exitCause, flagFontDir, zipEntries, tmpDir, closeFontDir,
           cleanupCalls, spawned, tasks, tokens, done, extracted, ioFailed,
           grpErr, csv, parts, partIdx, n, crPos, pages, fed, heads, outputs >>

stagerVars == << spawned, tasks, tokens, done, extracted, ioFailed, grpErr >>
fontVars == << tmpDir, closeFontDir, cleanupCalls >>
replayVars == << partIdx, n, crPos, pages, fed, heads, outputs >>
inputVars == << flagFontDir, zipEntries >>

\* ------------------------------------------------------------------ inputs
Records == UNION { [1..c -> FieldLens] : c \in ColCounts }
Inputs == UNION { [1..k -> Records] : k \in 0..MaxRows }

NoTasks == [acquire |-> 0, open |-> 0, create |-> 0, copy |-> 0]

InitCommon ==
    /\ pc = "prepareFontDir"
    /\ exitCause = ""
    /\ tmpDir = FALSE
    /\ closeFontDir = "unset"
    /\ cleanupCalls = 0
    /\ spawned = 0
    /\ tasks = NoTasks
    /\ tokens = 0
    /\ done = 0
    /\ extracted = 0
    /\ ioFailed = FALSE
    /\ grpErr = FALSE
    /\ csv = << >>
    /\ parts = << >>
    /\ partIdx = 0
    /\ n = 0
    /\ crPos = 0
    /\ pages = << >>
    /\ fed = << >>
    /\ heads = << >>
    /\ outputs = << >>

Init ==
    /\ InitCommon
    /\ flagFontDir \in {"", "font"}
    /\ zipEntries \in 0..MaxEntries

InitStage ==
    /\ InitCommon
    /\ flagFontDir \in {"", "font"}
    /\ zipEntries = StageEntries

\* log.Fatalf: os.Exit(1), deferred calls do not run
Fatalf(cause) ==
    /\ pc' = "exited"
    /\ exitCause' = cause

\* ---------------------------------------------------------- prepareFontDir
\* if fontDir != "" { return }: closeDir keeps its zero value, nil
PrepareSupplied ==
    /\ pc = "prepareFontDir"
    /\ flagFontDir # ""
    /\ closeFontDir' = "nil"
    /\ pc' = "loadMap"
    /\ UNCHANGED << exitCause, tmpDir, cleanupCalls, stagerVars, inputVars,
                    csv, parts, replayVars >>

\* fs.New, fs.ReadFile, zip.NewReader or os.MkdirTemp fails: err is returned
\* before closeDir is set, and main ends with log.Fatalf
PrepareNoArchive ==
    /\ pc = "prepareFontDir"
    /\ flagFontDir = ""
    /\ closeFontDir' = "nil"
    /\ Fatalf("fontdir")
    /\ UNCHANGED << tmpDir, cleanupCalls, stagerVars, inputVars, csv, parts,
                    replayVars >>

\* os.MkdirTemp succeeded; closeDir = func() error { return os.RemoveAll(fontDir) }
PrepareMkdirTemp ==
    /\ pc = "prepareFontDir"
    /\ flagFontDir = ""
    /\ tmpDir' = TRUE
    /\ closeFontDir' = "removeAll"
    /\ pc' = "extract"
    /\ UNCHANGED << exitCause, cleanupCalls, stagerVars, inputVars, csv, parts,
                    replayVars >>

\* for _, fi := range zr.File { grp.Go(func() error {...}) }
GrpGo ==
    /\ pc = "extract"
    /\ spawned < zipEntries
    /\ spawned' = spawned + 1
    /\ tasks' = [tasks EXCEPT !.acquire = @ + 1]
    /\ UNCHANGED << pc, exitCause, fontVars, tokens, done, extracted, ioFailed,
                    grpErr, inputVars, csv, parts, replayVars >>

\* a send on the buffered channel proceeds only while it is not full
TokenFreeAlways == TRUE
TokenFree == tokens < TokenCap

\* tokens <- token
TaskAcquire ==
    /\ pc = "extract"
    /\ tasks.acquire > 0
    /\ TokenFree
    /\ tokens' = tokens + 1
    /\ tasks' = [tasks EXCEPT !.acquire = @ - 1, !.open = @ + 1]
    /\ UNCHANGED << pc, exitCause, fontVars, spawned, done, extracted, ioFailed,
                    grpErr, inputVars, csv, parts, replayVars >>

\* the goroutine returns: defer func() { <-tokens }() runs, then the errgroup's
\* wg.Done(); a non-nil error is kept by the errgroup (the first one wins)
TaskReturn(from, ok, failed, err) ==
    /\ tasks' = [tasks EXCEPT ![from] = @ - 1]
    /\ tokens' = tokens - 1
    /\ done' = done + 1
    /\ extracted' = IF ok THEN extracted + 1 ELSE extracted
    /\ ioFailed' = (ioFailed \/ failed)
    /\ grpErr' = (grpErr \/ err)

\* src, err := fi.Open(); on error: log and return nil
TaskOpen ==
    /\ pc = "extract"
    /\ tasks.open > 0
    /\ \/ /\ tasks' = [tasks EXCEPT !.open = @ - 1, !.create = @ + 1]
          /\ UNCHANGED << tokens, done, extracted, ioFailed, grpErr >>
       \/ TaskReturn("open", FALSE, TRUE, FALSE)
    /\ UNCHANGED << pc, exitCause, fontVars, spawned, inputVars, csv, parts,
                    replayVars >>

\* dst, err := os.Create(dstFn); on error: log and return nil
TaskCreate ==
    /\ pc = "extract"
    /\ tasks.create > 0
    /\ \/ /\ tasks' = [tasks EXCEPT !.create = @ - 1, !.copy = @ + 1]
          /\ UNCHANGED << tokens, done, extracted, ioFailed, grpErr >>
       \/ TaskReturn("create", FALSE, TRUE, FALSE)
    /\ UNCHANGED << pc, exitCause, fontVars, spawned, inputVars, csv, parts,
                    replayVars >>

\* io.Copy(dst, src) then return dst.Close(); an error of either is returned
TaskCopy ==
    /\ pc = "extract"
    /\ tasks.copy > 0
    /\ \/ TaskReturn("copy", TRUE, FALSE, FALSE)
       \/ TaskReturn("copy", FALSE, TRUE, TRUE)
    /\ UNCHANGED << pc, exitCause, fontVars, spawned, inputVars, csv, parts,
                    replayVars >>

\* grp.Wait() returns once every goroutine started by grp.Go has returned
WaitReturnsEarly == spawned = zipEntries
WaitReturns == spawned = zipEntries /\ done = spawned

\* err = grp.Wait(); return.  The deferred func of prepareFontDir calls
\* closeDir and sets it to nil when err != nil; main then ends with log.Fatalf
GrpWait ==
    /\ pc = "extract"
    /\ WaitReturns
    /\ IF grpErr
         THEN /\ cleanupCalls' = cleanupCalls + 1
              /\ tmpDir' = FALSE
              /\ closeFontDir' = "nil"
              /\ Fatalf("fontdir")
         ELSE /\ pc' = "loadMap"
              /\ UNCHANGED << exitCause, fontVars >>
    /\ UNCHANGED << stagerVars, inputVars, csv, parts, replayVars >>

StagerNext ==
    \/ GrpGo
    \/ TaskAcquire
    \/ TaskOpen
    \/ TaskCreate
    \/ TaskCopy
    \/ GrpWait

\* ---------------------------------------------------------------- parseCsv
Max(a, b) == IF a > b THEN a ELSE b

\* make([]int, len(part.head))
Zeros(k) == [i \in 1..k |-> 0]

\* for i, v := range record { if len(v) > part.widths[i] { part.widths[i] = len(v) } }
UpdateWidthsLast(widths, record) ==
    [i \in 1..Len(widths) |-> record[i]]
UpdateWidths(widths, record) ==
    [i \in 1..Len(widths) |-> Max(widths[i], record[i])]

\* part.lastLine = n - 1 of the part opened at a field-count change (line 272)
OpenedLastLineOff(k) == k + 1
OpenedLastLine(k) == k - 1

\* part.lastLine = n - 1 after the loop (line 284)
FinalLastLine(k) == k - 1

\* the zero value of partDesc with the heading read by the first cr.Read()
FirstPart(head) ==
    [firstLine |-> 0, lastLine |-> 0, head |-> head, widths |-> Zeros(Len(head))]

\* the for loop of parseCsv from record i on; k is the counter n, ps the
\* parts appended so far, part the part being filled
RECURSIVE ParseLoop(_, _, _, _, _)
ParseLoop(recs, i, ps, part, k) ==
    IF i > Len(recs)
      THEN Append(ps, [part EXCEPT !.lastLine = FinalLastLine(k)])
      ELSE LET record == recs[i]
               k2 == k + 1
           IN  IF Len(record) # Len(part.head)
                 THEN ParseLoop(recs, i + 1, Append(ps, part),
                                [firstLine |-> k2,
                                 lastLine |-> OpenedLastLine(k2),
                                 head |-> record,
                                 widths |-> Zeros(Len(record))], k2)
                 ELSE ParseLoop(recs, i + 1, ps,
                                [part EXCEPT !.widths = UpdateWidths(@, record)],
                                k2)

\* parseCsv on an input with at least the heading (n := 1 after it is read)
ParseCsv(recs) == ParseLoop(recs, 2, << >>, FirstPart(recs[1]), 1)

\* ------------------------------------------------------------------- main
\* gofpdf.UnicodeTranslatorFromFile(fn)
LoadMap ==
    /\ pc = "loadMap"
    /\ \/ Fatalf("charset")
       \/ pc' = "input" /\ UNCHANGED exitCause
    /\ UNCHANGED << fontVars, stagerVars, inputVars, csv, parts, replayVars >>

\* csvFn == "" || csvFn == "-": standard input is saved to a temporary file
ResolveInput ==
    /\ pc = "input"
    /\ \/ Fatalf("tempfile")
       \/ Fatalf("savecsv")
       \/ pc' = "open" /\ UNCHANGED exitCause
    /\ UNCHANGED << fontVars, stagerVars, inputVars, csv, parts, replayVars >>

\* csvFile, err = os.Open(csvFn): from here on the file's records are fixed
OpenCsv ==
    /\ pc = "open"
    /\ \/ Fatalf("open") /\ UNCHANGED csv
       \/ /\ csv' \in Inputs
          /\ pc' = "parse"
          /\ UNCHANGED exitCause
    /\ UNCHANGED << fontVars, stagerVars, inputVars, parts, replayVars >>

\* parts, err := parseCsv(csDecoder(csvFile)); an empty file fails with io.EOF
\* at the heading, any record may fail with a read error
CallParseCsv ==
    /\ pc = "parse"
    /\ \/ Fatalf("parse") /\ UNCHANGED parts
       \/ /\ Len(csv) > 0
          /\ parts' = ParseCsv(csv)
          /\ pc' = "seek"
          /\ UNCHANGED exitCause
    /\ UNCHANGED << fontVars, stagerVars, inputVars, csv, replayVars >>

\* csvFile.Seek(0, 0); cr := csv.NewReader(...); pdf := gofpdf.New(...); n := 0
SeekBack ==
    /\ pc = "seek"
    /\ \/ Fatalf("seek") /\ UNCHANGED << partIdx, n, crPos >>
       \/ /\ partIdx' = 1
          /\ n' = 0
          /\ crPos' = 0
          /\ pc' = "loop"
          /\ UNCHANGED exitCause
    /\ UNCHANGED << fontVars, stagerVars, inputVars, csv, parts, pages, fed,
                    heads, outputs >>

RECURSIVE SumTo(_, _)
SumTo(f, k) == IF k = 0 THEN 0 ELSE f[k] + SumTo(f, k - 1)

\* totalWidth of main: for each column the larger of len(head[i]) and widths[i]
TotalWidth(part) ==
    SumTo([i \in 1..Len(part.head) |-> Max(part.head[i], part.widths[i])],
          Len(part.head))

\* orientation := "P"; if totalWidth > 190 { orientation = "L" }
Orientation(part) == IF TotalWidth(part) > LandscapeOver THEN "L" ELSE "P"

\* colwidths[i] = maxFloat(float64(w)*1.75, float64(len(header[i]))*2), in
\* quarters of a layout unit
ColWidth4(h, w) == Max(7 * w, 8 * h)

\* sum of the widths makeTable draws the cells of the part with, in quarters
DisplayWidth4(part) ==
    SumTo([i \in 1..Len(part.widths) |-> ColWidth4(part.head[i], part.widths[i])],
          Len(part.widths))

\* the outcome of cr.Read() of the replay reader when no read error happens
AtEOF == crPos >= Len(csv)

\* for _, part := range parts: AddPageFormat, makeTable, the header read
\* (any error, io.EOF included, is fatal) and the n++ that opens the body loop
BeginPart ==
    /\ pc = "loop"
    /\ partIdx <= Len(parts)
    /\ pages' = Append(pages, Orientation(parts[partIdx]))
    /\ fed' = Append(fed, << >>)
    /\ \/ Fatalf("headErr") /\ UNCHANGED << crPos, heads, n >>
       \/ IF AtEOF
            THEN Fatalf("headEOF") /\ UNCHANGED << crPos, heads, n >>
            ELSE /\ crPos' = crPos + 1
                 /\ heads' = Append(heads, crPos + 1)
                 /\ n' = n + 1
                 /\ pc' = "body"
                 /\ UNCHANGED exitCause
    /\ UNCHANGED << fontVars, stagerVars, inputVars, csv, parts, partIdx,
                    outputs >>

\* the row closure of makeTable reads colwidths[i] for every field of the
\* record; colwidths has len(widths) entries, a longer record indexes past it
RowFits(record, part) == Len(record) <= Len(part.widths)

\* a run-time panic unwinds main: the deferred csvFile.Close() and
\* closeFontDir() run before the process dies
PanicUnwind(cause) ==
    /\ pc' = "exited"
    /\ exitCause' = cause
    /\ IF closeFontDir = "removeAll"
         THEN /\ cleanupCalls' = cleanupCalls + 1
              /\ tmpDir' = FALSE
              /\ UNCHANGED closeFontDir
         ELSE UNCHANGED fontVars

\* one test of n < part.lastLine and, when it holds, one pass of the body:
\* cr.Read(), break at io.EOF, rowWriter(record), n++
ReplayRow ==
    /\ pc = "body"
    /\ IF n < parts[partIdx].lastLine
         THEN \/ Fatalf("body") /\ UNCHANGED << crPos, fed, n, fontVars >>
              \/ IF AtEOF
                   THEN /\ pc' = "output"
                        /\ UNCHANGED << exitCause, crPos, fed, n, fontVars >>
                   ELSE /\ crPos' = crPos + 1
                        /\ fed' = [fed EXCEPT ![partIdx] = Append(@, crPos + 1)]
                        /\ IF RowFits(csv[crPos + 1], parts[partIdx])
                             THEN /\ n' = n + 1
                                  /\ UNCHANGED << pc, exitCause, fontVars >>
                             ELSE /\ PanicUnwind("rowPanic")
                                  /\ UNCHANGED n
         ELSE /\ pc' = "output"
              /\ UNCHANGED << exitCause, crPos, fed, n, fontVars >>
    /\ UNCHANGED << stagerVars, inputVars, csv, parts, partIdx, pages,
                    heads, outputs >>

\* pdf.Output(os.Stdout), the last statement of the body of the range loop
OutputPdf ==
    /\ pc = "output"
    /\ outputs' = Append(outputs, partIdx)
    /\ \/ Fatalf("output") /\ UNCHANGED partIdx
       \/ /\ partIdx' = partIdx + 1
          /\ pc' = "loop"
          /\ UNCHANGED exitCause
    /\ UNCHANGED << fontVars, stagerVars, inputVars, csv, parts, n, crPos,
                    pages, fed, heads >>

\* main returns: the deferred csvFile.Close() and closeFontDir() run; calling
\* the nil func value panics
Return ==
    /\ pc = "loop"
    /\ partIdx > Len(parts)
    /\ pc' = "exited"
    /\ IF closeFontDir = "removeAll"
         THEN /\ cleanupCalls' = cleanupCalls + 1
              /\ tmpDir' = FALSE
              /\ exitCause' = "return"
              /\ UNCHANGED closeFontDir
         ELSE /\ exitCause' = "panic"
              /\ UNCHANGED fontVars
    /\ UNCHANGED << stagerVars, inputVars, csv, parts, replayVars >>

Next ==
    \/ PrepareSupplied
    \/ PrepareNoArchive
    \/ PrepareMkdirTemp
    \/ StagerNext
    \/ LoadMap
    \/ ResolveInput
    \/ OpenCsv
    \/ CallParseCsv
    \/ SeekBack
    \/ BeginPart
    \/ ReplayRow
    \/ OutputPdf
    \/ Return

\* prepareFontDir alone, up to its return to main
NextStage ==
    \/ PrepareSupplied
    \/ PrepareNoArchive
    \/ PrepareMkdirTemp
    \/ StagerNext

\* main at os.Open, after -fontdir was given and the charset mapping loaded
InitParse ==
    /\ pc = "open"
    /\ exitCause = ""
    /\ flagFontDir = "font"
    /\ zipEntries = 0
    /\ tmpDir = FALSE
    /\ closeFontDir = "nil"
    /\ cleanupCalls = 0
    /\ spawned = 0
    /\ tasks = NoTasks
    /\ tokens = 0
    /\ done = 0
    /\ extracted = 0
    /\ ioFailed = FALSE
    /\ grpErr = FALSE
    /\ csv = << >>
    /\ parts = << >>
    /\ partIdx = 0
    /\ n = 0
    /\ crPos = 0
    /\ pages = << >>
    /\ fed = << >>
    /\ heads = << >>
    /\ outputs = << >>

\* the first pass alone: the file is opened and parseCsv applied to it
NextParse ==
    \/ OpenCsv
    \/ CallParseCsv

Spec == Init /\ [][Next]_vars
SpecParse == InitParse /\ [][NextParse]_vars
SpecStage == InitStage /\ [][NextStage]_vars

\* ------------------------------------------------------------------ claims
\* parseCsv has returned
Parsed == parts # << >>

\* the body loop of part p has ended
BodyEnded(p) == p < partIdx \/ (p = partIdx /\ pc = "output")

\* all records of the input have the same field count
SingleSchema == \A i \in 1..Len(csv) : Len(csv[i]) = Len(csv[1])

\* records 1..b-1 share one field count, records b..N another one
TwoSchema(b) ==
    /\ \A i \in 1..(b - 1) : Len(csv[i]) = Len(csv[1])
    /\ \A i \in b..Len(csv) : Len(csv[i]) = Len(csv[b])
    /\ Len(csv[b]) # Len(csv[1])

\* C1: once the body loop of a part has ended, exactly one record was read
\* and dropped as its header and exactly lastLine - firstLine records were
\* given to its row writer; a single-schema input of N rows has N-1 rows drawn.
C1_ReplayFeedsWholeBody ==
    \A p \in 1..Len(parts) :
        BodyEnded(p) =>
            /\ p \in DOMAIN heads
            /\ Len(fed[p]) = parts[p].lastLine - parts[p].firstLine
            /\ (Len(parts) = 1 => Len(fed[p]) = Len(csv) - 1)

\* C2: the document is written to standard output at most once, only after
\* the rows of all parts were drawn, and exactly once in a run that reaches
\* the end of main.
C2_OutputOnceAtEnd ==
    /\ Len(outputs) <= 1
    /\ \A i \in DOMAIN outputs : outputs[i] = Len(parts)
    /\ (exitCause \in {"return", "panic"} => Len(outputs) = 1)

\* C3: an input whose rows 1..b-1 share one field count and whose rows b..N
\* share another gives exactly two parts: lines 1..b-1 headed by row 1 and
\* lines b..N headed by row b.
C3_TwoPartsAtFieldCountChange ==
    Parsed =>
        \A b \in 2..Len(csv) :
            TwoSchema(b) =>
                /\ Len(parts) = 2
                /\ parts[1].head = csv[1]
                /\ parts[1].firstLine = 1
                /\ parts[1].lastLine = b - 1
                /\ parts[2].head = csv[b]
                /\ parts[2].firstLine = b
                /\ parts[2].lastLine = Len(csv)

\* C4: an input of N >= 1 rows of one field count gives exactly one part,
\* whose lastLine is N.
C4_SingleSchemaLastLine ==
    (Parsed /\ SingleSchema) =>
        /\ Len(parts) = 1
        /\ parts[1].lastLine = Len(csv)

\* C5: the parts tile the 1-based line numbers in file order: the first part
\* starts at line 1, every part has firstLine <= lastLine, and each later part
\* starts right after the previous one ends.
C5_PartsTileLines ==
    Parsed =>
        /\ parts[1].firstLine = 1
        /\ \A p \in 1..Len(parts) : parts[p].firstLine <= parts[p].lastLine
        /\ \A p \in 2..Len(parts) :
               parts[p].firstLine = parts[p - 1].lastLine + 1

\* goroutines that hold a slot of the token channel
Active == tasks.open + tasks.create + tasks.copy

\* prepareFontDir has returned from a run that made the temporary directory
StagingReturned ==
    /\ pc \notin {"prepareFontDir", "extract"}
    /\ (closeFontDir = "removeAll" \/ cleanupCalls > 0)

\* C6: at most TokenCap extraction goroutines hold a slot at any instant;
\* prepareFontDir returns only after every goroutine has returned, with all
\* entries extracted unless some I/O failed; while it has not returned some
\* step of the extraction can be taken (no deadlock on the token channel).
C6_BoundedPoolJoinsAll ==
    /\ Active <= TokenCap
    /\ tokens = Active
    /\ (StagingReturned =>
            /\ spawned = zipEntries
            /\ done = zipEntries
            /\ Active = 0
            /\ (~ioFailed => extracted = zipEntries))
    /\ (pc = "extract" => ENABLED StagerNext)

\* C6 witness: a run over more entries than the channel holds has returned
\* with every entry extracted
C6_Witness ==
    /\ pc = "loadMap"
    /\ zipEntries > TokenCap
    /\ extracted = zipEntries
    /\ closeFontDir = "removeAll"

\* C7: with a font directory supplied no temporary directory is made, no
\* extraction starts, nothing is removed, and invoking the returned cleanup
\* action at the end of main completes normally.
C7_SuppliedDirCleanupNoOp ==
    flagFontDir # "" =>
        /\ ~tmpDir
        /\ spawned = 0
        /\ cleanupCalls = 0
        /\ exitCause # "panic"

\* C8: when staging succeeded with a temporary directory, the process never
\* ends without the cleanup action having been invoked exactly once, so the
\* directory does not outlive the process.
C8_CleanupOnEveryExit ==
    (pc = "exited" /\ closeFontDir = "removeAll") =>
        /\ cleanupCalls = 1
        /\ ~tmpDir

\* C9: no header read of the replay pass hits end of input, and a run that is
\* not cut short by an I/O failure takes the replay loop through all parts, so
\* it ends with as many pages added as parseCsv returned parts.
C9_PagePerPart ==
    /\ exitCause # "headEOF"
    /\ Len(pages) <= Len(parts)
    /\ (pc \in {"body", "output"} => Len(pages) = partIdx)
    /\ (exitCause \in {"return", "panic", "rowPanic"} => Len(pages) = Len(parts))

\* C10: the page of a part is portrait exactly when the sum of the widths its
\* cells are drawn with is at most 190 layout units (compared in quarters).
C10_OrientationByDisplayWidth ==
    \A p \in DOMAIN pages :
        (pages[p] = "P") <=> (DisplayWidth4(parts[p]) <= 4 * LandscapeOver)

\* lines at which a run of records of one field count begins
Starts == {1} \cup {i \in 2..Len(csv) : Len(csv[i]) # Len(csv[i - 1])}

\* the line that begins the p-th run
StartOf(p) == CHOOSE i \in Starts : Cardinality({j \in Starts : j <= i}) = p

\* the lines of the p-th run after its first
BodyOf(p) ==
    {i \in 1..Len(csv) :
        /\ i > StartOf(p)
        /\ \A s \in Starts : s > StartOf(p) => i < s}

\* the longest field in column c over the given lines, 0 over no lines
MaxLenIn(rows, c) ==
    LET lens == {csv[i][c] : i \in rows} \cup {0}
    IN  CHOOSE m \in lens : \A x \in lens : x <= m

\* C11: parseCsv returns one part per run of records of one field count, headed
\* by the run's first record; each part has one width per header column, and
\* widths[c] is the longest field of column c over the part's body rows (0
\* without body rows), so the row opening a part adds to no part's widths.
C11_WidthsAreBodyMaxima ==
    Parsed =>
        /\ Len(parts) = Cardinality(Starts)
        /\ \A p \in 1..Len(parts) :
               /\ parts[p].head = csv[StartOf(p)]
               /\ Len(parts[p].widths) = Len(parts[p].head)
               /\ \A c \in 1..Len(parts[p].head) :
                      /\ parts[p].widths[c] = MaxLenIn(BodyOf(p), c)
                      /\ \A i \in BodyOf(p) : parts[p].widths[c] >= csv[i][c]

\* C11 witness: two parts were returned; the first took its widths from a body
\* row, the second has a long header and a short body row
C11_Witness ==
    /\ Len(parts) = 2
    /\ parts[1].widths = << 110, 1 >>
    /\ parts[2].head = << 110 >>
    /\ parts[2].widths = << 1 >>

\* C12: every record given to a part's row writer is a body row of that part:
\* its line lies after the part's firstLine and up to its lastLine, it has as
\* many fields as the part's header, and the row writer never indexes past the
\* part's column widths.
C12_FedRowsBelongToPart ==
    /\ exitCause # "rowPanic"
    /\ \A p \in DOMAIN fed :
           \A k \in DOMAIN fed[p] :
               /\ fed[p][k] > parts[p].firstLine
               /\ fed[p][k] <= parts[p].lastLine
               /\ Len(csv[fed[p][k]]) = Len(parts[p].head)
====
